---- MODULE Spec2Model ----
(***************************************************************************)
(* State machine of the RouteMap component                                 *)
(* (src/frontend/src/components/RouteMap.tsx, lines 157-411): the four     *)
(* useState cells, the map click handler of ClickToSetPoints, the async    *)
(* fetchRoutes handler of the "Find Routes" button with its requests in    *)
(* flight, and the per-route selection buttons.                            *)
(*                                                                         *)
(* Every handler runs to completion before the next event (single-threaded *)
(* event loop); fetchRoutes suspends once, at its await of fetch(), and    *)
(* its continuation is a separate event run when the response is           *)
(* delivered.                                                              *)
(***************************************************************************)
EXTENDS Integers, Sequences, FiniteSets, TLC

\* ------------------------------------------------------------------ bounds
MaxClicks == 4
MaxRequests == 2
MaxRoutes == 2

\* ------------------------------------------------------------ value spaces
\* null of `[number, number] | null` and `string | null`
None == "null"

\* the points e.latlng can carry (two distinct map positions)
Points == {"A", "B"}

\* the ids the comparison service uses for its candidates
RouteIds == {"r1", "r2"}

\* type Route: the id and the geometry drawn as a polyline
Geometry(id) == IF id = "r1" THEN << <<0, 0>>, <<1, 1>> >>
                ELSE << <<1, 0>>, <<2, 3>> >>

Route(id) == [id |-> id, geometry |-> Geometry(id)]

RECURSIVE DistinctSeqs(_, _)
\* sequences of at most n distinct elements of S
DistinctSeqs(S, n) ==
    IF n = 0 \/ S = {} THEN {<<>>}
    ELSE {<<>>} \cup
         UNION {{<<x>> \o t : t \in DistinctSeqs(S \ {x}, n - 1)} : x \in S}

\* candidate lists a response body can carry in its `routes` field
RouteLists ==
    {[i \in 1..Len(s) |-> Route(s[i])] : s \in DistinctSeqs(RouteIds, MaxRoutes)}

\* stands for a data.routes that is not an array (absent, null, an object):
\* a value no candidate list equals
NotAnArray == <<[id |-> "undefined", geometry |-> <<>>]>>

\* ways a request can resolve:
\*   reject   fetch() rejects (backend down, network error)
\*   status   res.ok is false (4xx/5xx)
\*   badjson  res.json() rejects (body is not JSON)
\*   noroutes body parsed, data.routes absent or not an array (NotAnArray)
\*   routes   body parsed, data.routes is an array
Responses ==
    {[kind |-> k, routes |-> <<>>] : k \in {"reject", "status", "badjson"}}
    \cup {[kind |-> "noroutes", routes |-> NotAnArray]}
    \cup {[kind |-> "routes", routes |-> l] : l \in RouteLists}

NoResponse == [kind |-> "none", routes |-> <<>>]

\* --------------------------------------------------------------- variables
VARIABLES
    routes,           \* useState<Route[]>([])
    start,            \* useState<[number, number] | null>(null)
    end,              \* useState<[number, number] | null>(null)
    selectedRouteId,  \* useState<string | null>(null)
    sent,             \* bodies of the POSTs issued so far, in issue order
    inflight,         \* indices into sent of the fetches not yet resolved
    clickLog,         \* history: points of the map clicks, in order
    appliedLog,       \* history: indices of the resolved fetches, in arrival order
    ev,               \* history: the handler that ran last, with its input
    viewport          \* the view of the Leaflet map: how it was last set

vars == <<routes, start, end, selectedRouteId, sent, inflight,
          clickLog, appliedLog, ev, viewport>>

\* routes and selection as a handler finds them
Snapshot == [routes |-> routes, selectedRouteId |-> selectedRouteId]

NoSnapshot == [routes |-> <<>>, selectedRouteId |-> None]

\* record of one handler run: its name, its input (the clicked point, the id
\* of the pressed route button, or the resolved fetch and how it resolved)
\* and, for a resolution, the routes and selection it found
Event(op, p, id, rid, resp, before) ==
    [op |-> op, p |-> p, id |-> id, rid |-> rid, resp |-> resp,
     before |-> before]

Ids(rs) == {rs[i].id : i \in 1..Len(rs)}

\* ------------------------------------------------------------ FitToRoutes
\* <MapContainer center={[54.6, -5.9]} zoom={13}>: the view before any fit
InitialView == [kind |-> "initial", points |-> <<>>, padding |-> <<>>]

\* map.fitBounds(allPoints, { padding: [30, 30] }): the view is the one
\* Leaflet derives from these arguments
FitBounds(points) == [kind |-> "fitBounds", points |-> points, padding |-> <<30, 30>>]

RECURSIVE AllPoints(_)
\* routes.flatMap(r => r.geometry)
AllPoints(rs) ==
    IF Len(rs) = 0 THEN <<>> ELSE rs[1].geometry \o AllPoints(Tail(rs))

\* mutant: without routes the view goes back to the initial one
FitToRoutesResetOnEmpty(rs, view) ==
    IF Len(rs) = 0 THEN InitialView
    ELSE IF Len(AllPoints(rs)) > 0 THEN FitBounds(AllPoints(rs))
    ELSE view

\* the useEffect of FitToRoutes, run with a new routes array rs while the map
\* shows view: the view it leaves
FitToRoutes(rs, view) ==
    IF Len(rs) = 0 THEN view
    ELSE IF Len(AllPoints(rs)) > 0 THEN FitBounds(AllPoints(rs))
    ELSE view

\* ------------------------------------------------------------------- Init
Init ==
    /\ routes = <<>>
    /\ start = None
    /\ end = None
    /\ selectedRouteId = None
    /\ sent = <<>>
    /\ inflight = {}
    /\ clickLog = <<>>
    /\ appliedLog = <<>>
    /\ ev = Event("init", None, None, 0, NoResponse, NoSnapshot)
    /\ viewport = FitToRoutes(<<>>, InitialView)

\* ------------------------------------------------------- ClickToSetPoints
\* mutant: a click on the current start is ignored (distinct points required)
ClickNextDistinct(s, e, p) ==
    IF s = None THEN <<p, e>>
    ELSE IF e = None THEN (IF p = s THEN <<s, e>> ELSE <<s, p>>)
    ELSE <<p, None>>

\* mutant: the third click clears both points instead of restarting at p
ClickNextRestart(s, e, p) ==
    IF s = None THEN <<p, e>>
    ELSE IF e = None THEN <<s, p>>
    ELSE <<None, None>>

\* click(e): the <<start, end>> pair the handler leaves
ClickNext(s, e, p) ==
    IF s = None THEN <<p, e>>
    ELSE IF e = None THEN <<s, p>>
    ELSE <<p, None>>

\* mutant: the click that sets the end point also posts the comparison
ClickAutoFetch(p) ==
    /\ Len(clickLog) < MaxClicks
    /\ start' = ClickNext(start, end, p)[1]
    /\ end' = ClickNext(start, end, p)[2]
    /\ clickLog' = Append(clickLog, p)
    /\ ev' = Event("click", p, None, 0, NoResponse, NoSnapshot)
    /\ IF start # None /\ end = None /\ Len(sent) < MaxRequests
       THEN /\ sent' = Append(sent, [start |-> start, end |-> p])
            /\ inflight' = inflight \cup {Len(sent) + 1}
       ELSE UNCHANGED <<sent, inflight>>
    /\ UNCHANGED <<routes, selectedRouteId, appliedLog, viewport>>

\* mutant: restarting the selection also drops the routes of the last comparison
ClickClearsRoutes(p) ==
    /\ Len(clickLog) < MaxClicks
    /\ start' = ClickNext(start, end, p)[1]
    /\ end' = ClickNext(start, end, p)[2]
    /\ clickLog' = Append(clickLog, p)
    /\ ev' = Event("click", p, None, 0, NoResponse, NoSnapshot)
    /\ IF start # None /\ end # None
       THEN routes' = <<>> /\ selectedRouteId' = None
       ELSE UNCHANGED <<routes, selectedRouteId>>
    /\ UNCHANGED <<sent, inflight, appliedLog, viewport>>

Click(p) ==
    /\ Len(clickLog) < MaxClicks
    /\ start' = ClickNext(start, end, p)[1]
    /\ end' = ClickNext(start, end, p)[2]
    /\ clickLog' = Append(clickLog, p)
    /\ ev' = Event("click", p, None, 0, NoResponse, NoSnapshot)
    /\ UNCHANGED <<routes, selectedRouteId, sent, inflight, appliedLog, viewport>>

\* ------------------------------------------------------------ fetchRoutes
\* JSON body of the POST: the start and end of the render the handler closed over
RequestBody(s, e) == [start |-> s, end |-> e]

\* mutant: an invocation with a point missing also resets the route set
FetchRoutesResetOnInvalid ==
    IF start = None \/ end = None
    THEN /\ ev' = Event("fetchRoutes", None, None, 0, NoResponse, NoSnapshot)
         /\ routes' = <<>>
         /\ selectedRouteId' = None
         /\ UNCHANGED <<start, end, sent, inflight, clickLog, appliedLog, viewport>>
    ELSE /\ Len(sent) < MaxRequests
         /\ sent' = Append(sent, [start |-> start, end |-> end])
         /\ inflight' = inflight \cup {Len(sent) + 1}
         /\ ev' = Event("fetchRoutes", None, None, 0, NoResponse, NoSnapshot)
         /\ UNCHANGED <<routes, start, end, selectedRouteId,
                        clickLog, appliedLog, viewport>>

\* mutant: a new invocation aborts the requests still in flight
FetchRoutesCancelPrior ==
    IF start = None \/ end = None
    THEN /\ ev' = Event("fetchRoutes", None, None, 0, NoResponse, NoSnapshot)
         /\ UNCHANGED <<routes, start, end, selectedRouteId, sent, inflight,
                        clickLog, appliedLog, viewport>>
    ELSE /\ Len(sent) < MaxRequests
         /\ sent' = Append(sent, [start |-> start, end |-> end])
         /\ inflight' = {Len(sent) + 1}
         /\ ev' = Event("fetchRoutes", None, None, 0, NoResponse, NoSnapshot)
         /\ UNCHANGED <<routes, start, end, selectedRouteId,
                        clickLog, appliedLog, viewport>>

\* fetchRoutes up to its first await: the guard, then the POST
FetchRoutes ==
    IF start = None \/ end = None
    THEN /\ ev' = Event("fetchRoutes", None, None, 0, NoResponse, NoSnapshot)
         /\ UNCHANGED <<routes, start, end, selectedRouteId, sent, inflight,
                        clickLog, appliedLog, viewport>>
    ELSE /\ Len(sent) < MaxRequests
         /\ sent' = Append(sent, RequestBody(start, end))
         /\ inflight' = inflight \cup {Len(sent) + 1}
         /\ ev' = Event("fetchRoutes", None, None, 0, NoResponse, NoSnapshot)
         /\ UNCHANGED <<routes, start, end, selectedRouteId,
                        clickLog, appliedLog, viewport>>

\* mutant: data.routes is used without the Array.isArray test
RoutesFromBackendUnchecked(resp) == resp.routes

\* Array.isArray(data?.routes) ? data.routes : []
RoutesFromBackend(resp) ==
    IF resp.kind = "routes" THEN resp.routes ELSE <<>>

\* routesFromBackend[0]?.id ?? null
FirstId(rs) == IF Len(rs) > 0 THEN rs[1].id ELSE None

\* mutant: no catch around the fetch, a rejection leaves the routes as they were
NewRoutesNoCatch(resp) ==
    IF resp.kind \in {"reject", "badjson"} THEN routes
    ELSE IF resp.kind = "status" THEN <<>>
    ELSE RoutesFromBackend(resp)

\* the argument of the setRoutes call the continuation reaches
NewRoutes(resp) ==
    IF resp.kind \in {"reject", "badjson"} THEN <<>>       \* catch
    ELSE IF resp.kind = "status" THEN <<>>                  \* !res.ok
    ELSE RoutesFromBackend(resp)

\* mutant: the previous selection is kept when the new sequence still holds it
NewSelectedKeep(resp) ==
    IF resp.kind \in {"reject", "badjson"} THEN None
    ELSE IF resp.kind = "status" THEN None
    ELSE IF selectedRouteId \in Ids(RoutesFromBackend(resp)) THEN selectedRouteId
    ELSE FirstId(RoutesFromBackend(resp))

\* mutant: the first route is selected only when nothing was selected
NewSelectedStale(resp) ==
    IF resp.kind \in {"reject", "badjson"} THEN None
    ELSE IF resp.kind = "status" THEN None
    ELSE IF selectedRouteId # None /\ RoutesFromBackend(resp) # <<>>
         THEN selectedRouteId
    ELSE FirstId(RoutesFromBackend(resp))

\* the argument of the setSelectedRouteId call the continuation reaches
NewSelected(resp) ==
    IF resp.kind \in {"reject", "badjson"} THEN None       \* catch
    ELSE IF resp.kind = "status" THEN None                  \* !res.ok
    ELSE FirstId(RoutesFromBackend(resp))

\* whether the continuation may run for fetch number rid
Deliverable(rid) == rid \in inflight

\* mutant: a failure also clears the end point
ResolveClearsEnd(rid, resp) ==
    /\ Deliverable(rid)
    /\ inflight' = inflight \ {rid}
    /\ routes' = NewRoutes(resp)
    /\ selectedRouteId' = NewSelected(resp)
    /\ appliedLog' = Append(appliedLog, rid)
    /\ ev' = Event("response", None, None, rid, resp, Snapshot)
    /\ end' = (IF NewRoutes(resp) = <<>> THEN None ELSE end)
    /\ viewport' = FitToRoutes(NewRoutes(resp), viewport)
    /\ UNCHANGED <<start, sent, clickLog>>

\* mutant: a failed request is posted again
ResolveRetry(rid, resp) ==
    /\ Deliverable(rid)
    /\ routes' = NewRoutes(resp)
    /\ selectedRouteId' = NewSelected(resp)
    /\ appliedLog' = Append(appliedLog, rid)
    /\ ev' = Event("response", None, None, rid, resp, Snapshot)
    /\ viewport' = FitToRoutes(NewRoutes(resp), viewport)
    /\ IF resp.kind \in {"reject", "status", "badjson"} /\ Len(sent) < MaxRequests
       THEN /\ sent' = Append(sent, sent[rid])
            /\ inflight' = (inflight \ {rid}) \cup {Len(sent) + 1}
       ELSE /\ sent' = sent
            /\ inflight' = inflight \ {rid}
    /\ UNCHANGED <<start, end, clickLog>>

\* mutant: a failure puts the selector back to its initial state
ResolveResetsSelector(rid, resp) ==
    /\ Deliverable(rid)
    /\ inflight' = inflight \ {rid}
    /\ routes' = NewRoutes(resp)
    /\ selectedRouteId' = NewSelected(resp)
    /\ appliedLog' = Append(appliedLog, rid)
    /\ ev' = Event("response", None, None, rid, resp, Snapshot)
    /\ viewport' = FitToRoutes(NewRoutes(resp), viewport)
    /\ IF resp.kind \in {"reject", "status", "badjson"}
       THEN start' = None /\ end' = None
       ELSE UNCHANGED <<start, end>>
    /\ UNCHANGED <<sent, clickLog>>

\* fetchRoutes after its await: fetch number rid resolves as resp
Resolve(rid, resp) ==
    /\ Deliverable(rid)
    /\ inflight' = inflight \ {rid}
    /\ routes' = NewRoutes(resp)
    /\ selectedRouteId' = NewSelected(resp)
    /\ appliedLog' = Append(appliedLog, rid)
    /\ ev' = Event("response", None, None, rid, resp, Snapshot)
    /\ viewport' = FitToRoutes(NewRoutes(resp), viewport)
    /\ UNCHANGED <<start, end, sent, clickLog>>

\* ---------------------------------------------------------- route buttons
\* mutant: a press for any id reaches setSelectedRouteId
HasButtonAny(id) == TRUE

\* routes.map(...) renders one button per route of the current sequence
HasButton(id) == id \in Ids(routes)

\* mutant: pressing the button of the selected route deselects it
SelectNextToggle(id) ==
    IF HasButton(id)
    THEN (IF id = selectedRouteId THEN None ELSE id)
    ELSE selectedRouteId

\* the selection after a press aimed at the button of route id
SelectNext(id) == IF HasButton(id) THEN id ELSE selectedRouteId

\* onClick={() => setSelectedRouteId(r.id)}
SelectRoute(id) ==
    /\ selectedRouteId' = SelectNext(id)
    /\ ev' = Event("select", None, id, 0, NoResponse, NoSnapshot)
    /\ UNCHANGED <<routes, start, end, sent, inflight, clickLog, appliedLog, viewport>>

\* ------------------------------------------------- cards of the selection
\* Route.elevation_profile: samples { i, lat, lon, elev_m, dist_m }
ElevationProfile(id) ==
    IF id = "r1"
    THEN << [i |-> 0, lat |-> 0, lon |-> 0, elev_m |-> 12, dist_m |-> 0],
            [i |-> 1, lat |-> 1, lon |-> 0, elev_m |-> 15, dist_m |-> 40],
            [i |-> 2, lat |-> 1, lon |-> 1, elev_m |-> 9, dist_m |-> 90] >>
    ELSE << [i |-> 0, lat |-> 1, lon |-> 0, elev_m |-> 7, dist_m |-> 0],
            [i |-> 1, lat |-> 2, lon |-> 3, elev_m |-> 7, dist_m |-> 0] >>

\* Route.osm_summary: the fields the Surface Details card reads
OsmSummary(id) ==
    IF id = "r1"
    THEN [kerb_nodes_count |-> 2,
          surfaces |-> ("asphalt" :> 5 @@ "gravel" :> 1),
          smoothness |-> ("good" :> 4)]
    ELSE [kerb_nodes_count |-> 0,
          surfaces |-> ("paved" :> 3),
          smoothness |-> <<>>]

\* a route as the service sends it, with or without the optional parts the
\* cards test for (r?.elevation_profile, r?.osm_summary)
DetailedRoute(id, hasProfile, hasOsm) ==
    Route(id)
    @@ (IF hasProfile THEN [elevation_profile |-> ElevationProfile(id)] ELSE <<>>)
    @@ (IF hasOsm THEN [osm_summary |-> OsmSummary(id)] ELSE <<>>)

\* the candidate lists the cards are evaluated on
DetailedLists ==
    UNION {
        {l \in [1..Len(s) -> {DetailedRoute(id, hp, ho) :
                                 id \in RouteIds, hp \in BOOLEAN, ho \in BOOLEAN}] :
            \A i \in 1..Len(s) : l[i].id = s[i]}
        : s \in DistinctSeqs(RouteIds, MaxRoutes)}

\* a card or line the render leaves out (cond && <div>...)
Hidden == [shown |-> FALSE, data |-> <<>>]

Shown(data) == [shown |-> TRUE, data |-> data]

\* routes.find(r => r.id === selectedRouteId): the index found, 0 for undefined
Find(rs, sel) ==
    IF \E i \in 1..Len(rs) : rs[i].id = sel
    THEN CHOOSE i \in 1..Len(rs) :
            /\ rs[i].id = sel
            /\ \A j \in 1..(i - 1) : rs[j].id # sel
    ELSE 0

\* mutant: the curve is drawn over the sample index instead of the distance
ElevationSeriesByIndex(profile) ==
    [k \in 1..Len(profile) |-> <<profile[k].i, profile[k].elev_m>>]

\* <XAxis dataKey="dist_m"/> <Line dataKey="elev_m"/> over data={profile}:
\* the points of the curve, in the order of the samples
ElevationSeries(profile) ==
    [k \in 1..Len(profile) |-> <<profile[k].dist_m, profile[k].elev_m>>]

\* Object.entries(m): the (tag, count) pairs of a Record<string, number>
Entries(m) == {<<k, m[k]>> : k \in DOMAIN m}

\* Object.keys(m).length > 0 && <div>...entries...</div>
BreakdownLine(m) == IF DOMAIN m # {} THEN Shown(Entries(m)) ELSE Hidden

\* what the Elevation Profile and Surface Details cards show for routes rs
\* and selectedRouteId sel
Project(rs, sel) ==
    LET i == Find(rs, sel)
        hasProfile == sel # None /\ i # 0 /\ "elevation_profile" \in DOMAIN rs[i]
        hasOsm == sel # None /\ i # 0 /\ "osm_summary" \in DOMAIN rs[i]
    IN [elevationSeries |->
            IF hasProfile THEN Shown(ElevationSeries(rs[i].elevation_profile))
            ELSE Hidden,
        surfaceBreakdown |->
            IF hasOsm THEN BreakdownLine(rs[i].osm_summary.surfaces) ELSE Hidden,
        smoothnessBreakdown |->
            IF hasOsm THEN BreakdownLine(rs[i].osm_summary.smoothness) ELSE Hidden]

\* initial states of the evaluation of the cards: any candidate list with
\* any selection, nothing else having happened
ProjectInit ==
    /\ routes \in DetailedLists
    /\ selectedRouteId \in RouteIds \cup {None}
    /\ start = None
    /\ end = None
    /\ sent = <<>>
    /\ inflight = {}
    /\ clickLog = <<>>
    /\ appliedLog = <<>>
    /\ ev = [op |-> "init"]
    /\ viewport = InitialView

\* one render of the two cards
RenderCards ==
    /\ ev.op = "init"
    /\ ev' = [op |-> "render", view |-> Project(routes, selectedRouteId)]
    /\ UNCHANGED <<routes, start, end, selectedRouteId, sent, inflight,
                   clickLog, appliedLog, viewport>>

ProjectNext == RenderCards

ProjectSpec == ProjectInit /\ [][ProjectNext]_vars

\* ------------------------------------------------------------------- Next
Next ==
    \/ \E p \in Points : Click(p)
    \/ FetchRoutes
    \/ \E rid \in 1..MaxRequests, resp \in Responses : Resolve(rid, resp)
    \/ \E id \in RouteIds : SelectRoute(id)

Spec == Init /\ [][Next]_vars

TypeOK ==
    /\ routes \in RouteLists
    /\ start \in Points \cup {None}
    /\ end \in Points \cup {None}
    /\ selectedRouteId \in RouteIds \cup {None}
    /\ inflight \subseteq 1..Len(sent)
    /\ Len(sent) <= MaxRequests
    /\ Len(clickLog) <= MaxClicks
    /\ viewport \in {InitialView} \cup {FitBounds(AllPoints(l)) : l \in RouteLists \ {<<>>}}

\* ------------------------------------------------------- selector states
NoneSet == start = None /\ end = None
StartSet(s) == s # None /\ start = s /\ end = None
BothSet(s, e) == s # None /\ e # None /\ start = s /\ end = e

\* the requests that have been resolved
Applied == {appliedLog[i] : i \in 1..Len(appliedLog)}

\* a resolution the code treats as a failure or an empty result
IsFailure(resp) ==
    \/ resp.kind \in {"reject", "status", "badjson"}
    \/ resp.kind = "routes" /\ resp.routes = <<>>

\* ================================================================= claims

\* C1: every map click follows the transition table, for any clicked point p
\* (also p equal to the current start or end): from NoneSet to StartSet(p);
\* from StartSet(s) to BothSet(s, p), start unchanged; from BothSet(s, e) to
\* StartSet(p), end cleared.
C1_ClickTable ==
    [][ev'.op = "click" =>
        LET p == ev'.p IN
        /\ p \in Points
        /\ (start = None) => (start' = p /\ end' = end)
        /\ (start # None /\ end = None) => (start' = start /\ end' = p)
        /\ (start # None /\ end # None) => (start' = p /\ end' = None)]_vars

\* C1 witness: a click on the point that is already the start has made
\* start and end the same point.
C1_Witness ==
    /\ ev.op = "click"
    /\ Len(clickLog) >= 2
    /\ start = ev.p
    /\ end = ev.p

\* C2 as stated: after 3k+1, 3k+2, 3k+3 clicks the selector is StartSet,
\* BothSet, StartSet (period three).
C2_Original ==
    LET n == Len(clickLog) IN
    /\ (n = 0) => NoneSet
    /\ (n > 0 /\ n % 3 = 1) => StartSet(clickLog[n])
    /\ (n > 0 /\ n % 3 = 2) => BothSet(clickLog[n - 1], clickLog[n])
    /\ (n > 0 /\ n % 3 = 0) => StartSet(clickLog[n])

\* C2 amended: after one click the selector is StartSet with that point,
\* after two BothSet(first, second), after three StartSet(third) with end
\* cleared; from then on it alternates with period two: after n >= 1 clicks
\* it is StartSet(n-th point) when n is odd and BothSet((n-1)-th, n-th) when
\* n is even.
C2_ClickParity ==
    LET n == Len(clickLog) IN
    /\ (n = 0) => NoneSet
    /\ (n > 0 /\ n % 2 = 1) => StartSet(clickLog[n])
    /\ (n > 0 /\ n % 2 = 0) => BothSet(clickLog[n - 1], clickLog[n])

\* C2 witness: the fourth click has completed a second pair.
C2_Witness ==
    /\ Len(clickLog) = 4
    /\ BothSet(clickLog[3], clickLog[4])

\* C3 as stated: once A and B have been clicked from NoneSet, exactly one
\* request has been issued and it carries {start: A, end: B}.
C3_Original ==
    (Len(clickLog) = 2) =>
        /\ Len(sent) = 1
        /\ sent[1] = [start |-> clickLog[1], end |-> clickLog[2]]

\* C3 amended: a click issues no request, also the click that takes the
\* selector into BothSet; requests are issued only by invoking fetchRoutes
\* (the Find Routes button), and one invocation with start A and end B set
\* issues exactly one request, carrying {start: A, end: B}.
C3_RequestOnInvoke ==
    [][/\ (ev'.op = "click") => (sent' = sent /\ inflight' = inflight)
       /\ (sent' # sent) => (ev'.op = "fetchRoutes")
       /\ (ev'.op = "fetchRoutes" /\ start # None /\ end # None) =>
            /\ sent' = Append(sent, [start |-> start, end |-> end])
            /\ inflight' = inflight \cup {Len(sent) + 1}]_vars

\* C3 witness: A then B clicked, then one invocation: one request with A, B.
C3_Witness ==
    /\ clickLog = <<"A", "B">>
    /\ ev.op = "fetchRoutes"
    /\ sent = <<[start |-> "A", end |-> "B"]>>
    /\ inflight = {1}

\* C4: applying a success response with a non-empty candidate list makes the
\* route sequence exactly the response's routes, in order, and selectedId the
\* id of the first route, whatever was selected before.
C4_ReplaceSelectsFirst ==
    [][(ev'.op = "response" /\ ev'.resp.kind = "routes" /\ ev'.resp.routes # <<>>) =>
        /\ routes' = ev'.resp.routes
        /\ selectedRouteId' = ev'.resp.routes[1].id]_vars

\* C4 witness: the route selected before is in the new sequence, not first,
\* and the first route is selected.
C4_Witness ==
    /\ ev.op = "response"
    /\ ev.before.selectedRouteId = "r2"
    /\ routes = <<Route("r1"), Route("r2")>>
    /\ selectedRouteId = "r1"

\* C5: a resolution with an empty candidate list, a non-success status, an
\* unparseable body or a transport failure leaves the route sequence empty
\* and selectedId none, whatever was held before.
C5_FailureResets ==
    [][(ev'.op = "response" /\ IsFailure(ev'.resp)) =>
        /\ routes' = <<>>
        /\ selectedRouteId' = None]_vars

\* C5 witness: a failed request has emptied a route set that had a selection.
C5_Witness ==
    /\ ev.op = "response"
    /\ ev.resp.kind = "reject"
    /\ ev.before.routes # <<>>
    /\ ev.before.selectedRouteId # None
    /\ routes = <<>>
    /\ selectedRouteId = None

\* C6: applying a response, success or failure, leaves start and end as they
\* were.
C6_ResponseKeepsPoints ==
    [][(ev'.op = "response") => (start' = start /\ end' = end)]_vars

\* C6 witness: a failure was applied with both points set, and they still are.
C6_Witness ==
    /\ ev.op = "response"
    /\ ev.resp.kind = "status"
    /\ ev.before.routes # <<>>
    /\ start # None
    /\ end # None

\* C7: invoking fetchRoutes while start or end is not set issues no request
\* and changes none of start, end, routes, selectedId.
C7_InvalidInvocationNoop ==
    [][(ev'.op = "fetchRoutes" /\ (start = None \/ end = None)) =>
        /\ sent' = sent
        /\ inflight' = inflight
        /\ start' = start /\ end' = end
        /\ routes' = routes
        /\ selectedRouteId' = selectedRouteId]_vars

\* C7 witness: invoked in StartSet while routes and a selection from an
\* earlier comparison are held; they are still held and nothing is in flight.
C7_Witness ==
    /\ ev.op = "fetchRoutes"
    /\ start # None
    /\ end = None
    /\ routes # <<>>
    /\ selectedRouteId # None
    /\ Len(sent) = 1
    /\ inflight = {}

\* C8: in every reachable state a selectedId other than none is the id of a
\* route of the current sequence.
C8_SelectionValid ==
    selectedRouteId # None => selectedRouteId \in Ids(routes)

\* C8 witness: a response has replaced the sequence by one that does not
\* hold the route selected before.
C8_Witness ==
    /\ ev.op = "response"
    /\ ev.before.selectedRouteId # None
    /\ ev.before.selectedRouteId \notin Ids(routes)
    /\ selectedRouteId # None

C10_AppliedInArrivalOrder ==
    [][/\ (ev'.op = "fetchRoutes") => (inflight \subseteq inflight')
       /\ (ev'.op = "response") =>
            /\ ev'.rid \in inflight
            /\ inflight' = inflight \ {ev'.rid}
            /\ appliedLog' = Append(appliedLog, ev'.rid)
            /\ routes' = (IF ev'.resp.kind = "routes" THEN ev'.resp.routes ELSE <<>>)
            /\ selectedRouteId' = (IF routes' = <<>> THEN None ELSE routes'[1].id)
       /\ inflight' \cup Applied' = 1..Len(sent')]_vars

\* C10 witness: the second request resolved first, then the first request's
\* response replaced the routes the second had brought.
C10_Witness ==
    /\ appliedLog = <<2, 1>>
    /\ ev.op = "response"
    /\ ev.rid = 1
    /\ sent[1] # sent[2]
    /\ ev.before.routes # <<>>
    /\ routes # <<>>
    /\ routes # ev.before.routes
    /\ routes = ev.resp.routes

C16_RefitOnlyOnNewRoutes ==
    [][/\ (viewport' # viewport) => (ev'.op = "response" /\ routes' # <<>>)
       /\ (ev'.op \in {"click", "select", "fetchRoutes"}) => (viewport' = viewport)
       /\ (ev'.op = "response" /\ routes' = <<>>) => (viewport' = viewport)
       /\ (ev'.op = "response" /\ routes' # <<>>) =>
            /\ viewport'.kind = "fitBounds"
            /\ \A i \in 1..Len(routes') : \A k \in 1..Len(routes'[i].geometry) :
                 \E j \in 1..Len(viewport'.points) :
                     viewport'.points[j] = routes'[i].geometry[k]]_vars

\* C16 witness: a failure has emptied the route set and the viewport is
\* still the one fitted to the routes held before.
C16_Witness ==
    /\ ev.op = "response"
    /\ ev.resp.kind = "status"
    /\ routes = <<>>
    /\ ev.before.routes # <<>>
    /\ viewport = FitBounds(AllPoints(ev.before.routes))

\* C13: the cards show nothing when selectedId is none or names no route of
\* the sequence; when it names a route, the elevation series is that route's
\* elevation_profile as (dist_m, elev_m) pairs, same length and order (so
\* non-decreasing in dist_m when the profile is), and the surface and
\* smoothness breakdowns are the (tag, count) pairs of the route's osm_summary
\* maps; a part the route does not carry is not shown. Evaluating the cards
\* changes no state.
C13_ProjectSelected ==
    [][(ev'.op = "render") =>
        LET v == ev'.view IN
        /\ UNCHANGED <<routes, start, end, selectedRouteId, sent, inflight, viewport>>
        /\ (selectedRouteId = None \/ selectedRouteId \notin Ids(routes)) =>
             /\ ~v.elevationSeries.shown
             /\ ~v.surfaceBreakdown.shown
             /\ ~v.smoothnessBreakdown.shown
        /\ \A i \in 1..Len(routes) : (routes[i].id = selectedRouteId) =>
             /\ IF "elevation_profile" \in DOMAIN routes[i]
                THEN LET prof == routes[i].elevation_profile
                         ser == v.elevationSeries.data IN
                     /\ v.elevationSeries.shown
                     /\ Len(ser) = Len(prof)
                     /\ \A k \in 1..Len(prof) :
                          ser[k] = <<prof[k].dist_m, prof[k].elev_m>>
                     /\ (\A k \in 1..(Len(prof) - 1) : prof[k].dist_m <= prof[k + 1].dist_m)
                          => (\A k \in 1..(Len(ser) - 1) : ser[k][1] <= ser[k + 1][1])
                ELSE ~v.elevationSeries.shown
             /\ IF "osm_summary" \in DOMAIN routes[i]
                THEN LET osm == routes[i].osm_summary IN
                     /\ \A t \in DOMAIN osm.surfaces :
                          /\ v.surfaceBreakdown.shown
                          /\ <<t, osm.surfaces[t]>> \in v.surfaceBreakdown.data
                     /\ v.surfaceBreakdown.shown =>
                          Cardinality(v.surfaceBreakdown.data) = Cardinality(DOMAIN osm.surfaces)
                     /\ \A t \in DOMAIN osm.smoothness :
                          /\ v.smoothnessBreakdown.shown
                          /\ <<t, osm.smoothness[t]>> \in v.smoothnessBreakdown.data
                     /\ v.smoothnessBreakdown.shown =>
                          Cardinality(v.smoothnessBreakdown.data) = Cardinality(DOMAIN osm.smoothness)
                ELSE ~v.surfaceBreakdown.shown /\ ~v.smoothnessBreakdown.shown]_vars

\* C13 witness: the second of two routes is selected and the cards show its
\* three-sample profile and its two surfaces.
C13_Witness ==
    /\ ev.op = "render"
    /\ Len(routes) = 2
    /\ selectedRouteId = "r1"
    /\ routes[2].id = "r1"
    /\ ev.view.elevationSeries.shown
    /\ ev.view.elevationSeries.data = << <<0, 12>>, <<40, 15>>, <<90, 9>> >>
    /\ ev.view.surfaceBreakdown.shown
    /\ Cardinality(ev.view.surfaceBreakdown.data) = 2

\* C15: in every reachable state the route sequence is non-empty exactly
\* when selectedId is not none.
C15_SelectedIffRoutes ==
    (routes # <<>>) <=> (selectedRouteId # None)

\* C15 witness: the button of the route that is already selected (the second
\* of two) was pressed, and it is still selected.
C15_Witness ==
    /\ ev.op = "select"
    /\ Len(routes) = 2
    /\ ev.id = routes[2].id
    /\ selectedRouteId = ev.id

\* C17: an invocation of fetchRoutes changes none of start, end, routes,
\* selectedId; and while a request is outstanding no handler but the
\* application of a response changes the route sequence (not a click, not
\* the third click that clears end, not a select), and none but a response
\* or a select changes selectedId.
C17_OutstandingKeepsRoutes ==
    [][/\ (ev'.op = "fetchRoutes") =>
            /\ start' = start /\ end' = end
            /\ routes' = routes
            /\ selectedRouteId' = selectedRouteId
       /\ (inflight # {} /\ ev'.op # "response") => (routes' = routes)
       /\ (inflight # {} /\ ev'.op \notin {"response", "select"}) =>
            (selectedRouteId' = selectedRouteId)]_vars

\* C17 witness: with a request outstanding the third click has cleared end,
\* and the routes and selection of the earlier comparison are still held.
C17_Witness ==
    /\ ev.op = "click"
    /\ Len(clickLog) = 3
    /\ inflight = {2}
    /\ sent[2] = [start |-> clickLog[1], end |-> clickLog[2]]
    /\ end = None
    /\ routes # <<>>
    /\ selectedRouteId # None

\* C18: there is no automatic retry. Only an invocation of fetchRoutes sends
\* a request, and with both points set it sends exactly one, carrying the
\* start and end of that moment; applying an outcome, failure included,
\* sends nothing and takes the request out of flight, so that every outcome
\* is applied at most once.
C18_NoAutomaticRetry ==
    [][/\ (ev'.op # "fetchRoutes") => (sent' = sent)
       /\ (ev'.op = "fetchRoutes") =>
            IF start # None /\ end # None
            THEN /\ Len(sent') = Len(sent) + 1
                 /\ sent'[Len(sent')] = [start |-> start, end |-> end]
                 /\ \A i \in 1..Len(sent) : sent'[i] = sent[i]
            ELSE sent' = sent
       /\ (ev'.op = "response") =>
            /\ ev'.rid \notin Applied
            /\ ev'.rid \notin inflight'
            /\ inflight' \subseteq inflight
       /\ \A i, j \in 1..Len(appliedLog') :
            (appliedLog'[i] = appliedLog'[j]) => (i = j)]_vars

\* C18 witness: the first request failed and nothing was sent until the user
\* invoked the comparison again, which sent the same two points once more.
C18_Witness ==
    /\ ev.op = "fetchRoutes"
    /\ appliedLog = <<1>>
    /\ routes = <<>>
    /\ Len(sent) = 2
    /\ sent[2] = sent[1]
    /\ inflight = {2}

\* C19: in every reachable state end is not set while start is unset, and
\* once a click has occurred start is set (the selector is never NoneSet
\* again).
C19_SelectorLegal ==
    /\ (start = None) => (end = None)
    /\ (Len(clickLog) > 0) => (start # None)
    /\ (Len(clickLog) = 0) => NoneSet

\* C19 witness: after the third click reset the selector to StartSet, a
\* failure was applied, and the selector is still StartSet.
C19_Witness ==
    /\ ev.op = "response"
    /\ ev.resp.kind = "reject"
    /\ Len(clickLog) = 3
    /\ start = clickLog[3]
    /\ end = None

====
